---- MODULE Spec2Model ----
(***************************************************************************)
(* A model of pickaxe (include/pickaxe.hpp): the Serializer (sequential    *)
(* writer with alignment padding), the Deserializer (paged, buffered       *)
(* reader) and DestructorExceptions (the collector of close failures).     *)
(*                                                                         *)
(* The C stdio stream each object owns is the external collaborator; it is *)
(* modelled by its interface: a byte sequence (disk), a position, an       *)
(* end-of-file indicator, and calls that may fail.  Every call that can    *)
(* fail takes its outcome as an input of the action.                       *)
(*                                                                         *)
(* uint64_t arithmetic: the only subtraction that can go below zero is     *)
(* "lead = _active_page_size - _read_buffer_offset" in Deserializer::read. *)
(* Its wrapped value 2^64 - k is never needed as a number: it is the size  *)
(* of a memcpy (undefined behaviour, modelled as a choice between the      *)
(* process dying and the copy being skipped) and it is subtracted from     *)
(* size and added to dest, where "- (2^64 - k)" is "+ k" and               *)
(* "+ (2^64 - k)" is "- k" exactly.  All other values stay far below 2^64. *)
(***************************************************************************)
EXTENDS Integers, Sequences, FiniteSets, TLC

\* ---------------------------------------------------------------- bounds
MaxSize  == 4    \* longest resource a Deserializer is opened on
MaxPage  == 3    \* largest page size handed to the Deserializer
MaxRead  == 2    \* largest size handed to read / read_aligned
MaxAlign == 2    \* largest small alignment handed to read_aligned / write_aligned
MaxWrite == 1    \* longest data handed to write / write_aligned
MaxByte  == 1    \* data bytes are 1..MaxByte (0 is the padding byte)
MaxPos   == 1    \* largest position handed to Serializer::set_offset
MaxCalls == 2    \* calls made on one Serializer

\* Deserializer::set_offset is handed every position up to the longest end.
MaxSeek == MaxSize

\* ------------------------------------------------------ program constants
\* Serializer::_num_zeroes = alignof(std::max_align_t), 16 on the usual
\* 64-bit targets.
num_zeroes == 16

VARIABLES
  disk,        \* the bytes of the storage resource (the file's content)
  ser,         \* the Serializer object
  wfile,       \* the FILE the Serializer owns: [open, pos]
  de,          \* the Deserializer object
  rfile,       \* the FILE the Deserializer owns: [open, pos, eof]
  exceptions,  \* the DestructorExceptions both objects are bound to
  last,        \* the last call made and what it returned (observation)
  hist,        \* what a read-count probe on the resource has seen since construction
  life         \* who owns which FILE: the second object of each class, the
               \* filenames held, the std::fopen and std::fclose calls made

vars == <<disk, ser, wfile, de, rfile, exceptions, last, hist, life>>

writer == <<ser, wfile>>
reader == <<de, rfile, hist>>

Min(a, b) == IF a < b THEN a ELSE b

Zeroes(n) == [i \in 1..n |-> 0]

\* ------------------------------------------------------------ the stream
\* std::fread(buf, 1, size, file): as many of the next size bytes as the
\* resource holds; a short count sets the end-of-file indicator, unless the
\* read failed (err), which sets the error indicator and obtains nothing.
fread(s, size, err) ==
  LET avail == IF s.pos < Len(disk) THEN Len(disk) - s.pos ELSE 0
      n     == IF err THEN 0 ELSE Min(size, avail)
  IN  [n      |-> n,
       bytes  |-> SubSeq(disk, s.pos + 1, s.pos + n),
       ferror |-> err,
       s      |-> [s EXCEPT !.pos = s.pos + n,
                            !.eof = s.eof \/ (~err /\ n < size)]]

\* std::fseek(file, pos, SEEK_SET): repositions and clears end-of-file.
fseek(s, pos) == [s EXCEPT !.pos = pos, !.eof = FALSE]

\* The resource after data is stored at position pos: a gap between the old
\* end and pos reads as zero bytes; storing nothing leaves it as it is.
StoreAt(content, pos, data) ==
  IF Len(data) = 0 THEN content
  ELSE LET len == IF Len(content) > pos + Len(data) THEN Len(content)
                  ELSE pos + Len(data)
       IN  [i \in 1..len |->
              IF pos < i /\ i <= pos + Len(data) THEN data[i - pos]
              ELSE IF i <= Len(content) THEN content[i] ELSE 0]


\* No FILE: the object's _file is null, or there is no object.
NoFile == [open |-> FALSE, pos |-> 0, eof |-> FALSE, name |-> ""]

\* std::fopen(filename, mode), when it succeeds: name is the resource the FILE
\* is open on.
fopen(filename) == [open |-> TRUE, pos |-> 0, eof |-> FALSE, name |-> filename]

\* --------------------------------------------------------- Serializer
NoSerializer == [state |-> "none", offset |-> 0, calls |-> 0]

\* Serializer::_zeroes
zeroes == Zeroes(num_zeroes)

\* The Serializer with its stream and resource while a member function runs:
\* res is "ok" until a statement throws, and the statements after a throw do
\* not run.  nrw counts the std::fwrite calls.
Running(w, s, content) ==
  [w |-> w, s |-> s, disk |-> content, res |-> "ok", nrw |-> 0, fault |-> FALSE]

\* Serializer::get_offset
Serializer_get_offset(w) == w.offset

\* Serializer::write(data, size).  A run with a fault pending has its next
\* std::fwrite of at least one byte accept nothing.
Serializer_write(r, data) ==
  IF r.res # "ok" THEN r
  ELSE LET size == Len(data)
           n    == IF r.fault /\ size > 0 THEN 0 ELSE size
           r1   == [r EXCEPT !.nrw = @ + 1,
                             !.fault = @ /\ size = 0,
                             !.disk = StoreAt(@, r.s.pos, SubSeq(data, 1, n)),
                             !.s.pos = @ + n]
       IN  IF n # size
           THEN [r1 EXCEPT !.res = "WriteException"]
           ELSE [r1 EXCEPT !.w.offset = @ + size]

\* A faulty padding: the distance back to the previous multiple rather than
\* forward to the next one.
PaddingBackward(offset, alignment) == offset % alignment

\* Serializer::write_aligned: the value of padding before the loop.
Padding(offset, alignment) == alignment - (offset % alignment)

\* Serializer::write_aligned: the while loop; returns the run and the padding left.
RECURSIVE zero_chunks(_, _)
zero_chunks(r, padding) ==
  IF padding > num_zeroes
  THEN zero_chunks(Serializer_write(r, SubSeq(zeroes, 1, num_zeroes)),
                   padding - num_zeroes)
  ELSE [r |-> r, padding |-> padding]

\* Serializer::write_aligned(data, size, alignment)
Serializer_write_aligned(r, data, alignment) ==
  LET mod == r.w.offset % alignment
      z   == zero_chunks(r, Padding(r.w.offset, alignment))
  IN  IF mod # 0
      THEN Serializer_write(Serializer_write(z.r, SubSeq(zeroes, 1, z.padding)), data)
      ELSE Serializer_write(r, data)

\* A faulty seek: the stream moves but the tracked offset is left behind.
Serializer_set_offset_untracked(r, new_offset, seekOk) ==
  IF ~seekOk
  THEN [r EXCEPT !.res = "WriteException"]
  ELSE [r EXCEPT !.s.pos = new_offset]

\* Serializer::set_offset.  seekOk is what std::fseek returns (0 or not).
Serializer_set_offset(r, new_offset, seekOk) ==
  IF ~seekOk
  THEN [r EXCEPT !.res = "WriteException"]
  ELSE [r EXCEPT !.s.pos = new_offset, !.w.offset = new_offset]

\* Serializer::set_offset_aligned
Serializer_set_offset_aligned(r, new_offset, alignment, seekOk) ==
  LET mod == new_offset % alignment
  IN  Serializer_set_offset(r, IF mod # 0 THEN new_offset + (alignment - mod)
                                 ELSE new_offset, seekOk)

\* Serializer::flush.  flushOk is what std::fflush returns (0 or not).
Serializer_flush(r, flushOk) ==
  IF ~flushOk THEN [r EXCEPT !.res = "WriteException"] ELSE r

\* ------------------------------------------------------- Deserializer
NoDeserializer ==
  [state |-> "none", target_page_size |-> 0, active_page_size |-> 0,
   file_offset_page_begin |-> 0, file_offset_page_end |-> 0,
   read_buffer_offset |-> 0, read_buffer |-> <<>>]


\* Deserializer::get_offset
Deserializer_get_offset(d) == d.file_offset_page_begin + d.read_buffer_offset

\* Deserializer::is_eof
is_eof(s) == s.eof

\* Deserializer::_read_page.  Returns the object and stream afterwards, the
\* size it returns (n) and whether it threw.
read_page(d, s, err) ==
  LET active == IF d.active_page_size # d.target_page_size
                THEN d.target_page_size ELSE d.active_page_size
      r      == fread(s, active, err)
      filled == r.bytes \o SubSeq(d.read_buffer, r.n + 1, Len(d.read_buffer))
      d1     == [d EXCEPT !.active_page_size = active, !.read_buffer = filled]
  IN  IF r.n # active /\ (r.ferror \/ ~is_eof(r.s))
      THEN [exc |-> TRUE, n |-> 0, d |-> d1, s |-> r.s]
      ELSE [exc |-> FALSE, n |-> r.n, s |-> r.s,
            d |-> [d1 EXCEPT !.file_offset_page_begin = d.file_offset_page_end,
                             !.file_offset_page_end = d.file_offset_page_end + r.n,
                             !.read_buffer_offset = 0]]

\* The caller's destination: bytes are the bytes that landed in dest[0..),
\* back is how far the dest pointer stands before dest[0] (after the wrapped
\* "dest += lead"), got the sizes the underlying reads obtained, ub whether a
\* memcpy of a wrapped lead was executed.
NewDest == [bytes |-> <<>>, back |-> 0, got |-> <<>>, ub |-> FALSE]

\* std::memcpy(dest, chunk, Len(chunk)); dest += Len(chunk)
Put(dest, chunk) ==
  LET drop == Min(dest.back, Len(chunk))
  IN  [dest EXCEPT !.bytes = @ \o SubSeq(chunk, drop + 1, Len(chunk)),
                   !.back = @ - drop]

\* Deserializer::read, the loop and the final copy.  ub chooses what the
\* memcpy of a wrapped lead does ("crash": the process dies; "skip": nothing
\* is copied and execution goes on with the wrapped values).  err makes the
\* next underlying read fail.
RECURSIVE read_loop(_, _, _, _, _, _)
read_loop(d, s, size, dest, ub, err) ==
  IF d.read_buffer_offset + size > d.active_page_size
  THEN LET under == d.read_buffer_offset > d.active_page_size
           wrap  == IF under THEN d.read_buffer_offset - d.active_page_size ELSE 0
           lead  == IF under THEN 0 ELSE d.active_page_size - d.read_buffer_offset
           chunk == SubSeq(d.read_buffer, d.read_buffer_offset + 1,
                           d.read_buffer_offset + lead)
           dest1 == [Put(dest, chunk) EXCEPT !.back = @ + wrap, !.ub = @ \/ under]
           size1 == size - lead + wrap
           p     == read_page(d, s, err)
           dest2 == [dest1 EXCEPT !.got = Append(@, p.n)]
       IN  IF under /\ ub = "crash"
           THEN [res |-> "crash", d |-> d, s |-> s, dest |-> dest]
           ELSE IF p.exc
           THEN [res |-> "ReadException", d |-> p.d, s |-> p.s, dest |-> dest2]
           ELSE IF p.n < p.d.active_page_size /\ p.n < size1
           THEN [res |-> "ReadException", d |-> p.d, s |-> p.s, dest |-> dest2]
           ELSE read_loop(p.d, p.s, size1, dest2, ub, FALSE)
  ELSE [res  |-> "ok",
        d    |-> [d EXCEPT !.read_buffer_offset = @ + size],
        s    |-> s,
        dest |-> Put(dest, SubSeq(d.read_buffer, d.read_buffer_offset + 1,
                                  d.read_buffer_offset + size))]

Deserializer_read(d, s, size, ub, err) == read_loop(d, s, size, NewDest, ub, err)

\* Deserializer::read_aligned.  The padding is computed from the position in
\* the buffer (_read_buffer_offset), and a padding that passes the end of the
\* page is replaced by one _read_page().
Deserializer_read_aligned(d, s, size, alignment, ub, err) ==
  LET mod     == d.read_buffer_offset % alignment
      padding == alignment - mod
      p       == read_page(d, s, err)
  IN  IF mod # 0
      THEN IF d.read_buffer_offset + padding > d.active_page_size
           THEN IF p.exc
                THEN [res |-> "ReadException", d |-> p.d, s |-> p.s,
                      dest |-> [NewDest EXCEPT !.got = <<p.n>>]]
                ELSE read_loop(p.d, p.s, size, [NewDest EXCEPT !.got = <<p.n>>], ub,
                               FALSE)
           ELSE read_loop([d EXCEPT !.read_buffer_offset = @ + padding], s, size,
                          NewDest, ub, err)
      ELSE read_loop(d, s, size, NewDest, ub, err)

\* Deserializer::set_offset: whether new_offset takes the first branch.
InBufferedPage(d, new_offset) ==
  /\ d.file_offset_page_begin <= new_offset
  /\ new_offset < d.file_offset_page_begin + d.active_page_size

\* A faulty seek: the first branch stores the absolute offset as the cursor.
Deserializer_set_offset_absolute(d, s, new_offset, seekOk) ==
  IF InBufferedPage(d, new_offset)
  THEN [res |-> "ok", nseek |-> 0, s |-> s,
        d |-> [d EXCEPT !.read_buffer_offset = new_offset]]
  ELSE IF ~seekOk
  THEN [res |-> "ReadException", nseek |-> 1, s |-> s, d |-> d]
  ELSE [res |-> "ok", nseek |-> 1, s |-> fseek(s, new_offset),
        d |-> [d EXCEPT !.file_offset_page_begin = new_offset,
                        !.file_offset_page_end = new_offset,
                        !.read_buffer_offset = d.active_page_size]]

\* Deserializer::set_offset.  seekOk is what std::fseek returns (0 or not).
Deserializer_set_offset(d, s, new_offset, seekOk) ==
  IF InBufferedPage(d, new_offset)
  THEN [res |-> "ok", nseek |-> 0, s |-> s,
        d |-> [d EXCEPT !.read_buffer_offset = new_offset - d.file_offset_page_begin]]
  ELSE IF ~seekOk
  THEN [res |-> "ReadException", nseek |-> 1, s |-> s, d |-> d]
  ELSE [res |-> "ok", nseek |-> 1, s |-> fseek(s, new_offset),
        d |-> [d EXCEPT !.file_offset_page_begin = new_offset,
                        !.file_offset_page_end = new_offset,
                        !.read_buffer_offset = d.active_page_size]]

\* A faulty set_page_size: 0 is accepted like any other size.
Deserializer_set_page_size_unchecked(d, new_page_size) ==
  [res |-> "ok",
   d |-> [d EXCEPT !.target_page_size = new_page_size,
                   !.read_buffer =
                      IF Len(@) < new_page_size
                      THEN @ \o Zeroes(new_page_size - Len(@)) ELSE @]]

\* A faulty set_page_size: the buffered page is discarded.
Deserializer_set_page_size_discarding(d, new_page_size) ==
  IF new_page_size = 0
  THEN [res |-> "InvalidPageSizeException", d |-> d]
  ELSE [res |-> "ok",
        d |-> [d EXCEPT !.target_page_size = new_page_size,
                        !.read_buffer_offset = d.active_page_size,
                        !.read_buffer =
                           IF Len(@) < new_page_size
                           THEN @ \o Zeroes(new_page_size - Len(@)) ELSE @]]

\* Deserializer::set_page_size
Deserializer_set_page_size(d, new_page_size) ==
  IF new_page_size = 0
  THEN [res |-> "InvalidPageSizeException", d |-> d]
  ELSE [res |-> "ok",
        d |-> [d EXCEPT !.target_page_size = new_page_size,
                        !.read_buffer =
                           IF Len(@) < new_page_size
                           THEN @ \o Zeroes(new_page_size - Len(@)) ELSE @]]

\* ------------------------------------------------------------ observation
\* What was seen of the last call: its name, its outcome, and the underlying
\* reads and seeks it made.
Called(op, res, nrw, nseek) ==
  [op |-> op, res |-> res, nrw |-> nrw, nseek |-> nseek]

\* The probe: seq is whether only read(size) was called since construction;
\* requested is then the number of bytes those reads asked for, and got lists
\* what each underlying read obtained.
Probe(seq, requested, got) == [seq |-> seq, requested |-> requested, got |-> got]

NoProbe == Probe(FALSE, 0, <<>>)

\* The smallest multiple of alignment that is >= offset.
AlignUp(offset, alignment) ==
  offset + ((alignment - (offset % alignment)) % alignment)

\* An operation that threw leaves the object to be abandoned (spec section 7);
\* one whose memcpy ran away leaves no process ("crashed"), or a process whose
\* behaviour is undefined from then on ("undefined"): neither is used again.
After(d, res, ub) ==
  [d EXCEPT !.state = IF res = "crash" THEN "crashed"
                      ELSE IF ub THEN "undefined"
                      ELSE IF res = "ok" THEN "live" ELSE "failed"]

Live == de.state = "live"

\* ------------------------------------------------------------ ownership
\* The filenames: ser opens "w", de opens "r", the second Serializer "w2" and
\* the second Deserializer "r2".
Files == {"w", "r", "w2", "r2"}

\* CloseException(filename).what()
CloseException(filename) == "failed to close '" \o filename \o "'"

\* The second object of a class, with the FILE it owns and its _filename.
NoPeer(obj) == [obj |-> obj, file |-> NoFile, name |-> ""]

\* Nothing constructed, nothing opened, nothing closed, the process running.
NoLife ==
  [wname |-> "", rname |-> "",
   wpeer |-> NoPeer(NoSerializer), rpeer |-> NoPeer(NoDeserializer),
   opened |-> {}, closes |-> [f \in Files |-> 0], terminated |-> FALSE]

\* std::fopen returned a FILE for filename.
Opened(l, filename) == [l EXCEPT !.opened = @ \cup {filename}]

\* std::fclose was called on the FILEs of the filenames in closed.
Closed(l, closed) ==
  [l EXCEPT !.closes = [f \in Files |-> @[f] + IF f \in closed THEN 1 ELSE 0]]

\* Serializer::_close.  closeOk is what std::fclose returns (0 or not); a
\* failed close throws before _file is set to nullptr.
Serializer_close(f, closeOk) ==
  IF ~f.open THEN [exc |-> FALSE, file |-> f, closed |-> {}]
  ELSE IF ~closeOk THEN [exc |-> TRUE, file |-> f, closed |-> {f.name}]
  ELSE [exc |-> FALSE, file |-> NoFile, closed |-> {f.name}]

\* A faulty _close: the failure of std::fclose is ignored.
Deserializer_close_silent(f, closeOk) ==
  IF ~f.open THEN [exc |-> FALSE, file |-> f, closed |-> {}]
  ELSE [exc |-> FALSE, file |-> NoFile, closed |-> {f.name}]

\* Deserializer::_close
Deserializer_close(f, closeOk) ==
  IF ~f.open THEN [exc |-> FALSE, file |-> f, closed |-> {}]
  ELSE IF ~closeOk THEN [exc |-> TRUE, file |-> f, closed |-> {f.name}]
  ELSE [exc |-> FALSE, file |-> NoFile, closed |-> {f.name}]

\* std::terminate has not been called.
Alive == ~life.terminated

\* An object with the FILE it owns and the _filename it holds.
Owner(obj, file, name) == [obj |-> obj, file |-> file, name |-> name]

\* The two Serializers and the two Deserializers: a is ser / de, b the second.
WPair == [a |-> Owner(ser, wfile, life.wname), b |-> life.wpeer]
RPair == [a |-> Owner(de, rfile, life.rname), b |-> life.rpeer]

\* Serializer(Serializer &&other): the members are moved, other._file = nullptr.
Serializer_move(p, dst, src) ==
  [p EXCEPT ![dst] = p[src],
            ![src] = Owner(p[src].obj, NoFile, "")]

\* Serializer::operator=(Serializer &&other) noexcept: _close(), then the
\* members are moved.  A CloseException leaving the noexcept function calls
\* std::terminate.
Serializer_move_assign(p, dst, src, closeOk) ==
  LET c == Serializer_close(p[dst].file, closeOk)
  IN  IF c.exc
      THEN [terminated |-> TRUE, p |-> p, closed |-> c.closed]
      ELSE [terminated |-> FALSE, closed |-> c.closed,
            p |-> Serializer_move([p EXCEPT ![dst].file = c.file], dst, src)]

\* Deserializer(Deserializer &&other): the moved-from _read_buffer is empty.
Deserializer_move(p, dst, src) ==
  [p EXCEPT ![dst] = p[src],
            ![src] = Owner([p[src].obj EXCEPT !.read_buffer = <<>>], NoFile, "")]

\* Deserializer::operator=(Deserializer &&other) noexcept
Deserializer_move_assign(p, dst, src, closeOk) ==
  LET c == Deserializer_close(p[dst].file, closeOk)
  IN  IF c.exc
      THEN [terminated |-> TRUE, p |-> p, closed |-> c.closed]
      ELSE [terminated |-> FALSE, closed |-> c.closed,
            p |-> Deserializer_move([p EXCEPT ![dst].file = c.file], dst, src)]

\* -------------------------------------------------------------- actions
\* Deserializer::Deserializer(exceptions, filename, page_size)
DeserializerCtor(page_size, openOk) ==
  /\ Alive
  /\ de.state = "none"
  /\ ~rfile.open
  /\ ~wfile.open
  /\ IF ~openOk
     THEN /\ last' = Called("Deserializer", "ReadException", 0, 0)
          /\ UNCHANGED <<de, rfile, hist, life>>
     ELSE /\ rfile' = fopen("r")
          /\ IF page_size = 0
             THEN /\ last' = Called("Deserializer", "InvalidPageSizeException", 0, 0)
                  /\ life' = Opened(life, "r")
                  /\ UNCHANGED <<de, hist>>
             ELSE /\ life' = [Opened(life, "r") EXCEPT !.rname = "r"]
                  /\ de' = [state |-> "live",
                            target_page_size |-> page_size,
                            active_page_size |-> 0,
                            file_offset_page_begin |-> 0,
                            file_offset_page_end |-> 0,
                            read_buffer_offset |-> page_size,
                            read_buffer |-> Zeroes(page_size)]
                  /\ last' = Called("Deserializer", "ok", 0, 0)
                  /\ hist' = Probe(TRUE, 0, <<>>)
  /\ UNCHANGED <<disk, writer, exceptions>>

Read(size, ub, err) ==
  /\ Live
  /\ LET r == Deserializer_read(de, rfile, size, ub, err)
     IN  /\ err => r.res = "ReadException"
         /\ (ub = "crash") => (r.res = "crash")
         /\ de' = After(r.d, r.res, r.dest.ub)
         /\ rfile' = r.s
         /\ last' = Called("read", r.res, Len(r.dest.got), 0)
         /\ hist' = IF hist.seq
                    THEN Probe(TRUE, hist.requested + size, hist.got \o r.dest.got)
                    ELSE NoProbe
  /\ UNCHANGED <<disk, writer, exceptions, life>>

ReadAligned(size, alignment, ub, err) ==
  /\ Live
  /\ LET r == Deserializer_read_aligned(de, rfile, size, alignment, ub, err)
     IN  /\ err => r.res = "ReadException"
         /\ (ub = "crash") => (r.res = "crash")
         /\ de' = After(r.d, r.res, r.dest.ub)
         /\ rfile' = r.s
         /\ last' = Called("read_aligned", r.res, Len(r.dest.got), 0)
         /\ hist' = NoProbe
  /\ UNCHANGED <<disk, writer, exceptions, life>>

SetOffset(new_offset, seekOk) ==
  /\ Live
  /\ LET r == Deserializer_set_offset(de, rfile, new_offset, seekOk)
     IN  /\ de' = After(r.d, r.res, FALSE)
         /\ rfile' = r.s
         /\ last' = Called("set_offset", r.res, 0, r.nseek)
         /\ hist' = NoProbe
  /\ UNCHANGED <<disk, writer, exceptions, life>>

SetPageSize(new_page_size) ==
  /\ Live
  /\ LET r == Deserializer_set_page_size(de, new_page_size)
     IN  /\ de' = After(r.d, r.res, FALSE)
         /\ last' = Called("set_page_size", r.res, 0, 0)
         /\ hist' = NoProbe
  /\ UNCHANGED <<disk, rfile, writer, exceptions, life>>

\* Deserializer::~Deserializer: _close(), a CloseException goes to the collector.
DeserializerDtor(closeOk) ==
  /\ Alive
  /\ de.state \in {"live", "failed"}
  /\ LET c == Deserializer_close(rfile, closeOk)
     IN  /\ exceptions' = IF c.exc THEN Append(exceptions, CloseException(life.rname))
                          ELSE exceptions
         /\ life' = [Closed(life, c.closed) EXCEPT !.rname = ""]
  /\ de' = [NoDeserializer EXCEPT !.state = "destroyed"]
  /\ rfile' = NoFile
  /\ hist' = NoProbe
  /\ last' = Called("~Deserializer", "ok", 0, 0)
  /\ UNCHANGED <<disk, writer>>

\* What the memcpy of a wrapped lead can do; without a wrapped lead there is
\* nothing to choose.
Outcomes ==
  IF de.read_buffer_offset > de.active_page_size THEN {"crash", "skip"} ELSE {"skip"}

NextReader ==
  \/ \E page_size \in 0..MaxPage, openOk \in BOOLEAN : DeserializerCtor(page_size, openOk)
  \/ \E size \in 0..MaxRead, ub \in Outcomes, err \in BOOLEAN : Read(size, ub, err)
  \/ \E size \in 0..MaxRead, alignment \in 1..MaxAlign, ub \in Outcomes,
        err \in BOOLEAN : ReadAligned(size, alignment, ub, err)
  \/ \E new_offset \in 0..MaxSeek, seekOk \in BOOLEAN : SetOffset(new_offset, seekOk)
  \/ \E closeOk \in BOOLEAN : DeserializerDtor(closeOk)

\* A resource of S bytes whose byte at stream position p is p + 1.
Resource(S) == [i \in 1..S |-> i]

InitReader ==
  /\ disk \in {Resource(S) : S \in 0..MaxSize}
  /\ ser = NoSerializer
  /\ wfile = NoFile
  /\ de = NoDeserializer
  /\ rfile = NoFile
  /\ exceptions = <<>>
  /\ last = Called("none", "ok", 0, 0)
  /\ hist = NoProbe
  /\ life = NoLife

SpecReader == InitReader /\ [][NextReader]_vars

\* ------------------------------------------------------ Serializer actions
WLive == ser.state = "live" /\ ser.calls < MaxCalls

\* The state a member function of the Serializer leaves, from its run.
Ran(op, r) ==
  /\ ser' = [r.w EXCEPT !.state = IF r.res = "ok" THEN "live" ELSE "failed",
                        !.calls = @ + 1]
  /\ wfile' = r.s
  /\ disk' = r.disk
  /\ last' = Called(op, r.res, r.nrw, 0)
  /\ UNCHANGED <<reader, exceptions, life>>

Faulty(r, fault) == [r EXCEPT !.fault = fault]

\* Serializer::Serializer(exceptions, filename): "wb" empties the resource.
SerializerCtor(openOk) ==
  /\ Alive
  /\ ser.state = "none"
  /\ ~wfile.open
  /\ ~rfile.open
  /\ IF ~openOk
     THEN /\ last' = Called("Serializer", "WriteException", 0, 0)
          /\ UNCHANGED <<disk, ser, wfile, life>>
     ELSE /\ disk' = <<>>
          /\ life' = [Opened(life, "w") EXCEPT !.wname = "w"]
          /\ wfile' = fopen("w")
          /\ ser' = [state |-> "live", offset |-> 0, calls |-> 0]
          /\ last' = Called("Serializer", "ok", 0, 0)
  /\ UNCHANGED <<reader, exceptions>>

Write(data, fault) ==
  /\ WLive
  /\ LET r == Serializer_write(Faulty(Running(ser, wfile, disk), fault), data)
     IN  /\ fault => r.res # "ok"
         /\ Ran("write", r)

WriteAligned(data, alignment, fault) ==
  /\ WLive
  /\ LET r == Serializer_write_aligned(Faulty(Running(ser, wfile, disk), fault),
                                       data, alignment)
     IN  /\ fault => r.res # "ok"
         /\ Ran("write_aligned", r)

WSetOffset(new_offset, seekOk) ==
  /\ WLive
  /\ Ran("set_offset",
         Serializer_set_offset(Running(ser, wfile, disk), new_offset, seekOk))

WSetOffsetAligned(new_offset, alignment, seekOk) ==
  /\ WLive
  /\ Ran("set_offset_aligned",
         Serializer_set_offset_aligned(Running(ser, wfile, disk), new_offset,
                                       alignment, seekOk))

Flush(flushOk) ==
  /\ WLive
  /\ Ran("flush", Serializer_flush(Running(ser, wfile, disk), flushOk))

\* Serializer::~Serializer: _close(), a CloseException goes to the collector.
\* closeOk is what std::fclose returns (0 or not).
SerializerDtor(closeOk) ==
  /\ Alive
  /\ ser.state \in {"live", "failed"}
  /\ LET c == Serializer_close(wfile, closeOk)
     IN  /\ exceptions' = IF c.exc THEN Append(exceptions, CloseException(life.wname))
                          ELSE exceptions
         /\ life' = [Closed(life, c.closed) EXCEPT !.wname = ""]
  /\ ser' = [NoSerializer EXCEPT !.state = "destroyed"]
  /\ wfile' = NoFile
  /\ last' = Called("~Serializer", "ok", 0, 0)
  /\ UNCHANGED <<disk, reader>>

\* The data and alignments handed to the Serializer.
Data == UNION {[1..n -> 1..MaxByte] : n \in 0..MaxWrite}

Alignments == (1..MaxAlign) \cup {num_zeroes + 2, 2 * num_zeroes + 2}

NextWriter ==
  \/ \E openOk \in BOOLEAN : SerializerCtor(openOk)
  \/ \E data \in Data, fault \in BOOLEAN : Write(data, fault)
  \/ \E data \in Data, alignment \in Alignments, fault \in BOOLEAN :
        WriteAligned(data, alignment, fault)
  \/ \E new_offset \in 0..MaxPos, seekOk \in BOOLEAN : WSetOffset(new_offset, seekOk)
  \/ \E new_offset \in 0..MaxPos, alignment \in Alignments, seekOk \in BOOLEAN :
        WSetOffsetAligned(new_offset, alignment, seekOk)
  \/ \E flushOk \in BOOLEAN : Flush(flushOk)
  \/ \E closeOk \in BOOLEAN : SerializerDtor(closeOk)

InitWriter ==
  /\ disk = <<>>
  /\ ser = NoSerializer
  /\ wfile = NoFile
  /\ de = NoDeserializer
  /\ rfile = NoFile
  /\ exceptions = <<>>
  /\ last = Called("none", "ok", 0, 0)
  /\ hist = NoProbe
  /\ life = NoLife

SpecWriter == InitWriter /\ [][NextWriter]_vars

\* ------------------------------------------------------ ownership actions
\* The Serializers after an operation on the pair, with the ledger l.
SetWPair(p, l) ==
  /\ ser' = p.a.obj
  /\ wfile' = p.a.file
  /\ life' = [l EXCEPT !.wname = p.a.name, !.wpeer = p.b]
  /\ UNCHANGED <<disk, reader, exceptions>>

\* The Deserializers after an operation on the pair, with the ledger l.
SetRPair(p, l) ==
  /\ de' = p.a.obj
  /\ rfile' = p.a.file
  /\ hist' = NoProbe
  /\ life' = [l EXCEPT !.rname = p.a.name, !.rpeer = p.b]
  /\ UNCHANGED <<disk, writer, exceptions>>

\* Serializer::Serializer on the second Serializer, filename "w2".
SerializerPeerCtor(openOk) ==
  /\ Alive
  /\ life.wpeer.obj.state = "none"
  /\ IF ~openOk
     THEN /\ last' = Called("Serializer", "WriteException", 0, 0)
          /\ UNCHANGED life
     ELSE /\ life' = [Opened(life, "w2") EXCEPT
                        !.wpeer = Owner([state |-> "live", offset |-> 0, calls |-> 0],
                                        fopen("w2"), "w2")]
          /\ last' = Called("Serializer", "ok", 0, 0)
  /\ UNCHANGED <<disk, writer, reader, exceptions>>

\* Serializer::~Serializer on the second Serializer.
SerializerPeerDtor(closeOk) ==
  /\ Alive
  /\ life.wpeer.obj.state = "live"
  /\ LET c == Serializer_close(life.wpeer.file, closeOk)
     IN  /\ exceptions' = IF c.exc
                          THEN Append(exceptions, CloseException(life.wpeer.name))
                          ELSE exceptions
         /\ life' = [Closed(life, c.closed) EXCEPT
                       !.wpeer = NoPeer([NoSerializer EXCEPT !.state = "destroyed"])]
  /\ last' = Called("~Serializer", "ok", 0, 0)
  /\ UNCHANGED <<disk, writer, reader>>

\* Serializer dst(std::move(src))
SerializerMoveCtor(dst, src) ==
  /\ Alive
  /\ dst # src
  /\ WPair[dst].obj.state = "none" /\ ~WPair[dst].file.open
  /\ WPair[src].obj.state = "live"
  /\ SetWPair(Serializer_move(WPair, dst, src), life)
  /\ last' = Called("Serializer(&&)", "ok", 0, 0)

\* dst = std::move(src), dst and src the same object included.
SerializerMoveAssign(dst, src, closeOk) ==
  /\ Alive
  /\ WPair[dst].obj.state = "live"
  /\ WPair[src].obj.state = "live"
  /\ LET r == Serializer_move_assign(WPair, dst, src, closeOk)
     IN  /\ SetWPair(r.p, [Closed(life, r.closed) EXCEPT !.terminated = r.terminated])
         /\ last' = Called("operator=", IF r.terminated THEN "terminate" ELSE "ok", 0, 0)

\* Deserializer::Deserializer on the second Deserializer, filename "r2".
DeserializerPeerCtor(page_size, openOk) ==
  /\ Alive
  /\ life.rpeer.obj.state = "none"
  /\ IF ~openOk
     THEN /\ last' = Called("Deserializer", "ReadException", 0, 0)
          /\ UNCHANGED life
     ELSE IF page_size = 0
     THEN /\ last' = Called("Deserializer", "InvalidPageSizeException", 0, 0)
          /\ life' = Opened(life, "r2")
     ELSE /\ life' = [Opened(life, "r2") EXCEPT
                        !.rpeer = Owner([state |-> "live",
                                         target_page_size |-> page_size,
                                         active_page_size |-> 0,
                                         file_offset_page_begin |-> 0,
                                         file_offset_page_end |-> 0,
                                         read_buffer_offset |-> page_size,
                                         read_buffer |-> Zeroes(page_size)],
                                        fopen("r2"), "r2")]
          /\ last' = Called("Deserializer", "ok", 0, 0)
  /\ UNCHANGED <<disk, writer, reader, exceptions>>

\* Deserializer::~Deserializer on the second Deserializer.
DeserializerPeerDtor(closeOk) ==
  /\ Alive
  /\ life.rpeer.obj.state = "live"
  /\ LET c == Deserializer_close(life.rpeer.file, closeOk)
     IN  /\ exceptions' = IF c.exc
                          THEN Append(exceptions, CloseException(life.rpeer.name))
                          ELSE exceptions
         /\ life' = [Closed(life, c.closed) EXCEPT
                       !.rpeer = NoPeer([NoDeserializer EXCEPT !.state = "destroyed"])]
  /\ last' = Called("~Deserializer", "ok", 0, 0)
  /\ UNCHANGED <<disk, writer, reader>>

\* Deserializer dst(std::move(src))
DeserializerMoveCtor(dst, src) ==
  /\ Alive
  /\ dst # src
  /\ RPair[dst].obj.state = "none" /\ ~RPair[dst].file.open
  /\ RPair[src].obj.state = "live"
  /\ SetRPair(Deserializer_move(RPair, dst, src), life)
  /\ last' = Called("Deserializer(&&)", "ok", 0, 0)

\* dst = std::move(src), dst and src the same object included.
DeserializerMoveAssign(dst, src, closeOk) ==
  /\ Alive
  /\ RPair[dst].obj.state = "live"
  /\ RPair[src].obj.state = "live"
  /\ LET r == Deserializer_move_assign(RPair, dst, src, closeOk)
     IN  /\ SetRPair(r.p, [Closed(life, r.closed) EXCEPT !.terminated = r.terminated])
         /\ last' = Called("operator=", IF r.terminated THEN "terminate" ELSE "ok", 0, 0)

\* The two objects of a class.
Objects == {"a", "b"}

\* Construction, move construction, move assignment and destruction of two
\* Serializers and two Deserializers bound to one DestructorExceptions.
NextOwnership ==
  \/ \E openOk \in BOOLEAN : SerializerCtor(openOk)
  \/ \E openOk \in BOOLEAN : SerializerPeerCtor(openOk)
  \/ \E dst, src \in Objects : SerializerMoveCtor(dst, src)
  \/ \E dst, src \in Objects, closeOk \in BOOLEAN : SerializerMoveAssign(dst, src, closeOk)
  \/ \E closeOk \in BOOLEAN : SerializerDtor(closeOk)
  \/ \E closeOk \in BOOLEAN : SerializerPeerDtor(closeOk)
  \/ \E page_size \in 0..1, openOk \in BOOLEAN : DeserializerCtor(page_size, openOk)
  \/ \E page_size \in 0..1, openOk \in BOOLEAN : DeserializerPeerCtor(page_size, openOk)
  \/ \E dst, src \in Objects : DeserializerMoveCtor(dst, src)
  \/ \E dst, src \in Objects, closeOk \in BOOLEAN :
        DeserializerMoveAssign(dst, src, closeOk)
  \/ \E closeOk \in BOOLEAN : DeserializerDtor(closeOk)
  \/ \E closeOk \in BOOLEAN : DeserializerPeerDtor(closeOk)

SpecOwnership == InitWriter /\ [][NextOwnership]_vars

\* Only read(size) and set_offset are called on the Deserializer.
NextReadSeek ==
  \/ \E page_size \in 0..MaxPage, openOk \in BOOLEAN : DeserializerCtor(page_size, openOk)
  \/ \E size \in 0..MaxRead, ub \in Outcomes, err \in BOOLEAN : Read(size, ub, err)
  \/ \E new_offset \in 0..MaxSeek, seekOk \in BOOLEAN : SetOffset(new_offset, seekOk)
  \/ \E closeOk \in BOOLEAN : DeserializerDtor(closeOk)

SpecReadSeek == InitReader /\ [][NextReadSeek]_vars

\* read, read_aligned and set_page_size are called on the Deserializer.
NextPageSize ==
  \/ \E page_size \in 0..MaxPage, openOk \in BOOLEAN : DeserializerCtor(page_size, openOk)
  \/ \E size \in 0..MaxRead, ub \in Outcomes, err \in BOOLEAN : Read(size, ub, err)
  \/ \E size \in 0..MaxRead, alignment \in 1..MaxAlign, ub \in Outcomes,
        err \in BOOLEAN : ReadAligned(size, alignment, ub, err)
  \/ \E new_page_size \in 0..MaxPage : SetPageSize(new_page_size)
  \/ \E closeOk \in BOOLEAN : DeserializerDtor(closeOk)

SpecPageSize == InitReader /\ [][NextPageSize]_vars

\* ================================================================ claims
\* The n bytes the resource holds at stream positions [o, o + n); -1 stands
\* for a position past the end, which holds no byte.
Stored(o, n) == [i \in 1..n |-> IF o + i <= Len(disk) THEN disk[o + i] ELSE -1]

\* The bytes between the Deserializer's logical position and the end.
Remaining(d) ==
  IF Deserializer_get_offset(d) < Len(disk)
  THEN Len(disk) - Deserializer_get_offset(d) ELSE 0

CeilDiv(a, b) == (a + b - 1) \div b

\* The logical position lies in the range of the buffered page, its end
\* included: the states a Deserializer is in after a page was fetched and
\* read from, where get_offset() is the position the next byte comes from.
InPage(d) ==
  d.read_buffer_offset <= d.file_offset_page_end - d.file_offset_page_begin

\* C1: after a successful set_offset(o), whatever successful reads and
\* set_offset calls came before, every read(n) with o + n within the resource
\* succeeds and delivers exactly the bytes stored at [o, o + n).
C1_SeekThenReadRoundTrip ==
  [][\A o \in 0..MaxSeek :
       (SetOffset(o, TRUE) /\ de'.state = "live")
       => \A n \in 0..MaxRead :
            (o + n <= Len(disk))
            => LET r == Deserializer_read(de', rfile', n, "crash", FALSE)
               IN  r.res = "ok" /\ r.dest.bytes = Stored(o, n)]_vars

\* C2: on a Deserializer on which only read was called since construction,
\* the next read(size) delivers the bytes that follow those already asked
\* for, starting at byte 0, and a read past the end fails with a read error.
C2_SequentialReads ==
  [][\A size \in 0..MaxRead, ub \in Outcomes :
       (hist.seq /\ Read(size, ub, FALSE))
       => LET r == Deserializer_read(de, rfile, size, ub, FALSE)
          IN  IF hist.requested + size <= Len(disk)
              THEN r.res = "ok" /\ r.dest.bytes = Stored(hist.requested, size)
              ELSE r.res = "ReadException"]_vars

\* C3: a read(size) that asks for more bytes than remain between the logical
\* position and the end of the resource fails with a read error.  Stated for
\* the states with the position inside the buffered page (the final short
\* page included), which is where the claim breaks.
C3_ShortPageRejection ==
  [][\A size \in 0..MaxRead, ub \in Outcomes :
       (InPage(de) /\ Read(size, ub, FALSE) /\ size > Remaining(de))
       => last'.res = "ReadException"]_vars

\* C4: a read of exactly the bytes that remain (at least one) succeeds and
\* is_eof() is true afterwards.  Stated for the states with the position
\* inside the buffered page.
C4_ExactRemainderThenEof ==
  [][\A size \in 1..MaxRead, ub \in Outcomes :
       (InPage(de) /\ Read(size, ub, FALSE)
          /\ Deserializer_get_offset(de) + size = Len(disk))
       => last'.res = "ok" /\ is_eof(rfile')]_vars

\* C5: every successful read(size) leaves get_offset() at its value before
\* the call plus size.
C5_ReadAdvancesOffset ==
  [][\A size \in 0..MaxRead, ub \in Outcomes :
       (Read(size, ub, FALSE) /\ last'.res = "ok")
       => Deserializer_get_offset(de') = Deserializer_get_offset(de) + size]_vars

\* C6: set_offset(pos) with pos inside the buffered page makes no underlying
\* seek or read, changes nothing but _read_buffer_offset, succeeds, and
\* leaves get_offset() = pos.
C6_FastPathSeek ==
  [][\A pos \in 0..MaxSeek, seekOk \in BOOLEAN :
       (InBufferedPage(de, pos) /\ SetOffset(pos, seekOk))
       => /\ last'.res = "ok"
          /\ last'.nseek = 0 /\ last'.nrw = 0
          /\ rfile' = rfile
          /\ de' = [de EXCEPT !.read_buffer_offset = de'.read_buffer_offset]
          /\ Deserializer_get_offset(de') = pos]_vars

\* C6 witness: a seek that made no underlying call has moved the cursor
\* inside a page that does not start at 0 and is not at its first byte.
C6_Witness ==
  /\ last.op = "set_offset" /\ last.res = "ok" /\ last.nseek = 0
  /\ de.state = "live"
  /\ de.file_offset_page_begin > 0
  /\ de.read_buffer_offset > 0
  /\ de.read_buffer_offset < de.active_page_size

\* C7: once the reads on a fresh Deserializer have asked for all S >= 1 bytes
\* of the resource, the Deserializer is still usable and the underlying reads
\* were ceil(S / P), each obtaining P bytes except possibly the last.
C7_PageRefillCount ==
  (hist.seq /\ last.op = "read" /\ Len(disk) >= 1 /\ hist.requested = Len(disk))
  => LET S == Len(disk)
         P == de.target_page_size
     IN  /\ de.state = "live"
         /\ Len(hist.got) = CeilDiv(S, P)
         /\ \A k \in 1..Len(hist.got) :
              hist.got[k] = IF k < Len(hist.got) THEN P ELSE S - P * (k - 1)

\* C8: a successful read_aligned(size, a) at logical offset o delivers the
\* size bytes stored from the smallest multiple of a that is >= o.  Stated
\* for the states with the position inside the buffered page and for aligned
\* ranges that lie inside the resource.
C8_AlignedReadPosition ==
  [][\A size \in 1..MaxRead, a \in 1..MaxAlign, ub \in Outcomes :
       (InPage(de) /\ ReadAligned(size, a, ub, FALSE) /\ last'.res = "ok"
          /\ AlignUp(Deserializer_get_offset(de), a) + size <= Len(disk))
       => LET r == Deserializer_read_aligned(de, rfile, size, a, ub, FALSE)
          IN  r.dest.bytes = Stored(AlignUp(Deserializer_get_offset(de), a), size)]_vars

\* C9: write_aligned(data, a) at offset o writes pad = (a - o mod a) mod a
\* zero bytes (at most a - 1) and then data, so data starts at a multiple of
\* a and the offset ends at o + pad + len(data); nothing else changes.
C9_WriterAlignment ==
  [][\A data \in Data, a \in Alignments :
       (last'.op = "write_aligned" /\ WriteAligned(data, a, FALSE))
       => LET o     == ser.offset
              pad   == (a - (o % a)) % a
              start == o + pad
          IN  /\ last'.res = "ok"
              /\ pad <= a - 1 /\ start % a = 0
              /\ ser'.offset = start + Len(data)
              /\ \A i \in 1..pad : disk'[o + i] = 0
              /\ \A i \in 1..Len(data) : disk'[start + i] = data[i]
              /\ \A i \in 1..Len(disk) :
                   (i <= o \/ i > start + Len(data)) => disk'[i] = disk[i]
              /\ (pad + Len(data) > 0) =>
                   Len(disk') = IF Len(disk) > start + Len(data)
                                THEN Len(disk) ELSE start + Len(data)]_vars

\* C9 witness: a write_aligned has written its padding in several chunks
\* (two writes of zeroes and the write of the data).
C9_Witness ==
  /\ last.op = "write_aligned" /\ last.res = "ok" /\ last.nrw >= 3
  /\ ser.state = "live"

\* C10: while the Serializer has not failed, get_offset() is the position of
\* its stream: write adds the size, set_offset(P) moves both to P, flush
\* leaves the offset alone.
C10_WriterOffsetTracking ==
  [][/\ ser'.state = "live" => Serializer_get_offset(ser') = wfile'.pos
     /\ \A data \in Data :
          Write(data, FALSE) => ser'.offset = ser.offset + Len(data)
     /\ \A P \in 0..MaxPos :
          WSetOffset(P, TRUE) => ser'.offset = P /\ wfile'.pos = P
     /\ Flush(TRUE) => ser'.offset = ser.offset]_vars

\* C10 witness: a set_offset has moved a Serializer back from where its
\* writes had taken it.
C10_Witness ==
  /\ last.op = "set_offset" /\ last.res = "ok"
  /\ ser.state = "live"
  /\ ser.offset < Len(disk)
  /\ ser.offset = wfile.pos

\* C11: the constructor with page size 0 on a resource that opens, and
\* set_page_size(0) in any state, fail with InvalidPageSizeException and
\* leave no usable Deserializer; a usable one never has _target_page_size 0.
C11_InvalidPageSize ==
  [][/\ DeserializerCtor(0, TRUE)
        => last'.res = "InvalidPageSizeException" /\ de'.state # "live"
     /\ SetPageSize(0)
        => last'.res = "InvalidPageSizeException" /\ de'.state # "live"
     /\ de'.state = "live" => de'.target_page_size > 0]_vars

\* C11 witness: set_page_size(0) was refused on a Deserializer that had a
\* page buffered.
C11_Witness ==
  /\ last.op = "set_page_size" /\ last.res = "InvalidPageSizeException"
  /\ de.state = "failed"
  /\ de.target_page_size > 0
  /\ de.file_offset_page_end > 0

\* A destructor that ran on an object whose FILE was f: it returned, the
\* process goes on, and the sink gained the record naming f's resource if and
\* only if f was open and its close failed; older records keep their place.
Deferred(f, closeOk) ==
  /\ last'.res = "ok"
  /\ ~life'.terminated
  /\ exceptions' = IF f.open /\ ~closeOk
                   THEN Append(exceptions, CloseException(f.name))
                   ELSE exceptions

\* C12: destroying a Serializer or a Deserializer never raises; a failed
\* close appends exactly one record naming the resource to the sink, a
\* successful close (or no handle) leaves the sink unchanged, and the records
\* already there are kept in order.
C12_DeferredCloseFailure ==
  [][\A closeOk \in BOOLEAN :
       /\ SerializerDtor(closeOk) => Deferred(wfile, closeOk)
       /\ SerializerPeerDtor(closeOk) => Deferred(life.wpeer.file, closeOk)
       /\ DeserializerDtor(closeOk) => Deferred(rfile, closeOk)
       /\ DeserializerPeerDtor(closeOk) => Deferred(life.rpeer.file, closeOk)]_vars

\* C12 witness: the sink holds the record of a Serializer's failed close and,
\* after it, the record of the failed close of the FILE on "r2" that a
\* Deserializer took over by move construction.
C12_Witness ==
  /\ last.op = "~Deserializer"
  /\ de.state = "destroyed"
  /\ life.rpeer.obj.state = "live"
  /\ exceptions = <<CloseException("w"), CloseException("r2")>>

\* A release of the open FILE f: std::fclose was called on it once, nothing
\* was raised and the process goes on, and a failed close is in the sink.
Released(f, closeOk) ==
  /\ life'.closes[f.name] = life.closes[f.name] + 1
  /\ last'.res = "ok"
  /\ ~life'.terminated
  /\ exceptions' = IF closeOk THEN exceptions
                   ELSE Append(exceptions, CloseException(f.name))

\* C13: every release of a handle, by a destructor or by a move assignment
\* over an object that owns one, attempts the close and reports its failure
\* through the sink, never by raising or aborting.
C13_ReleaseThroughSink ==
  [][\A closeOk \in BOOLEAN :
       /\ (wfile.open /\ SerializerDtor(closeOk)) => Released(wfile, closeOk)
       /\ (life.wpeer.file.open /\ SerializerPeerDtor(closeOk))
          => Released(life.wpeer.file, closeOk)
       /\ (rfile.open /\ DeserializerDtor(closeOk)) => Released(rfile, closeOk)
       /\ (life.rpeer.file.open /\ DeserializerPeerDtor(closeOk))
          => Released(life.rpeer.file, closeOk)
       /\ \A dst, src \in Objects :
            /\ (WPair[dst].file.open /\ SerializerMoveAssign(dst, src, closeOk))
               => Released(WPair[dst].file, closeOk)
            /\ (RPair[dst].file.open /\ DeserializerMoveAssign(dst, src, closeOk))
               => Released(RPair[dst].file, closeOk)]_vars


\* C14: get_offset() is the stream position of the next byte a read would
\* deliver: 0 right after a successful construction, and pos right after a
\* successful set_offset(pos), on the slow path and on the fast path.
C14_LogicalOffset ==
  [][/\ \A page_size \in 1..MaxPage :
          DeserializerCtor(page_size, TRUE) => Deserializer_get_offset(de') = 0
     /\ \A pos \in 0..MaxSeek :
          (SetOffset(pos, TRUE) /\ last'.res = "ok")
          => Deserializer_get_offset(de') = pos]_vars

\* C15: a constructed Deserializer always has page_begin <= page_end and
\* _read_buffer_offset <= _active_page_size.
C15_RangeInvariants ==
  de.state = "live"
  => /\ de.file_offset_page_begin <= de.file_offset_page_end
     /\ de.read_buffer_offset <= de.active_page_size


\* C16: a successful read that refilled the page once, started with the
\* cursor in range, leaves _active_page_size equal to the number of bytes the
\* refill obtained, page_begin at the previous page_end, page_end at
\* page_begin + _active_page_size, and the cursor at 0 plus the bytes the read
\* then took from the new page.
C16_RefillPostconditions ==
  [][\A size \in 0..MaxRead :
       (/\ de.read_buffer_offset <= de.active_page_size
        /\ Read(size, "skip", FALSE)
        /\ last'.res = "ok" /\ last'.nrw = 1)
       => LET n    == rfile'.pos - rfile.pos
              lead == de.active_page_size - de.read_buffer_offset
          IN  /\ de'.active_page_size = n
              /\ de'.file_offset_page_begin = de.file_offset_page_end
              /\ de'.file_offset_page_end
                   = de'.file_offset_page_begin + de'.active_page_size
              /\ de'.read_buffer_offset = size - lead]_vars


\* The last call was a successful set_offset that took the slow path.
C17_Emptied == last.op = "set_offset" /\ last.res = "ok" /\ last.nseek = 1

\* C17: after a slow-path set_offset the buffer counts as empty, also when a
\* further successful set_offset directly follows the slow-path one: the next
\* read of at least one byte, if it succeeds, makes an underlying page read
\* (it delivers no byte that was buffered before the seek).
C17_SlowSeekEmptiesBuffer ==
  [][\A pos \in 0..MaxSeek :
       (/\ SetOffset(pos, TRUE) /\ last'.res = "ok"
        /\ (last'.nseek = 1 \/ C17_Emptied))
       => \A size \in 1..MaxRead :
            LET r == Deserializer_read(de', rfile', size, "skip", FALSE)
            IN  r.res = "ok" => Len(r.dest.got) >= 1]_vars

\* C18: set_page_size(n) with n > 0 succeeds, changes only _target_page_size
\* and the length of the buffer, which grows to n if it was shorter and keeps
\* its bytes; it makes no I/O.  The bytes still unread in the buffered page
\* are what the next read delivers first, with no refill if they suffice, and
\* a refill made by that read is made at the new size.
C18_SetPageSizeFrame ==
  [][\A n \in 1..MaxPage :
       SetPageSize(n)
       => /\ last'.res = "ok" /\ last'.nrw = 0 /\ last'.nseek = 0
          /\ de' = [de EXCEPT !.target_page_size = n,
                              !.read_buffer = de'.read_buffer]
          /\ Len(de'.read_buffer)
               = (IF Len(de.read_buffer) < n THEN n ELSE Len(de.read_buffer))
          /\ SubSeq(de'.read_buffer, 1, Len(de.read_buffer)) = de.read_buffer
          /\ rfile' = rfile /\ disk' = disk
          /\ de.read_buffer_offset <= de.active_page_size
             => \A size \in 0..MaxRead :
                  LET unread == SubSeq(de.read_buffer, de.read_buffer_offset + 1,
                                       de.active_page_size)
                      k      == Min(size, Len(unread))
                      r      == Deserializer_read(de', rfile', size, "skip", FALSE)
                  IN  /\ size <= Len(unread)
                         => /\ r.res = "ok" /\ r.dest.got = <<>>
                            /\ r.dest.bytes = SubSeq(unread, 1, size)
                      /\ r.res = "ok"
                         => SubSeq(r.dest.bytes, 1, k) = SubSeq(unread, 1, k)
                      /\ r.dest.got # <<>> => r.d.active_page_size = n]_vars

\* C18 witness: set_page_size has just grown the buffer to a target above the
\* active page size while the buffered page still holds unread bytes.
C18_Witness ==
  /\ last.op = "set_page_size" /\ last.res = "ok"
  /\ de.state = "live"
  /\ de.active_page_size > 0
  /\ de.target_page_size > de.active_page_size
  /\ de.read_buffer_offset < de.active_page_size
  /\ Len(de.read_buffer) = de.target_page_size


\* C19: in every reachable state of a constructed Deserializer, read(size)
\* ends after finitely many refills and either returns the bytes or fails
\* with a read error.
C19_ReadTerminates ==
  [][\A size \in 0..MaxRead, ub \in {"crash", "skip"} :
       Read(size, ub, FALSE)
       => /\ last'.res \in {"ok", "ReadException"}
          /\ de'.state \in {"live", "failed"}
          /\ last'.nrw <= CeilDiv(Len(disk), de.target_page_size) + 1]_vars

\* Every constructed object is gone: never constructed, or destroyed.
C20_AllGone ==
  /\ Alive
  /\ ser.state \in {"none", "destroyed"}
  /\ de.state \in {"none", "destroyed"}
  /\ life.wpeer.obj.state \in {"none", "destroyed"}
  /\ life.rpeer.obj.state \in {"none", "destroyed"}

\* C20: a handle that was opened is never closed twice, and once every
\* object is gone it has been closed exactly once.
C20_ExactlyOnceClose ==
  \A filename \in life.opened :
    /\ life.closes[filename] <= 1
    /\ C20_AllGone => life.closes[filename] = 1

====
